---- MODULE Spec2Model ----
(***************************************************************************)
(* Account verification and credential recovery of naija-nutri-hub:        *)
(* the /sign-up, /verify, /resend_otp, /login, /verify_reset_otp and       *)
(* /reset_password endpoints of main.py and the service functions          *)
(* resend_otp_service, request_password_reset and reset_user_password of   *)
(* auth/service.py, over the two MongoDB collections user-auth and         *)
(* otp-data.                                                               *)
(*                                                                         *)
(* Every request handler is a process; each call it makes to the store is  *)
(* one atomic step, so the handlers of concurrent requests interleave      *)
(* between store calls (FastAPI runs "def" endpoints on a thread pool).    *)
(* Time is counted in whole minutes: 60 seconds is 1.                      *)
(***************************************************************************)
EXTENDS Integers, Sequences, FiniteSets, TLC

\* ---------------------------------------------------------------- bounds
MaxTime == 11
MaxIds == 2
MaxUsers == 1
MaxSignUps == 3
MaxLongTime == 62
MaxPeers == 2

\* ------------------------------------------------------ program constants
RESEND_INTERVAL == 1
OTP_TTL == 5
OTP_EXPIRY_MINUTES == 10
RESET_OTP_VALIDITY == 5
RESET_RATE_LIMIT == 5
TOKEN_EXPIRY == 60

\* ------------------------------------------------------------ input sets
Procs == {1, 2}
Emails == {"a@x.com", "b@x.com"}
SignUpEmails == {"a@x.com"}
Usernames == {"a"}
Passwords == {"Secret123", "NewPass456"}
SignUpPasswords == {"Secret123"}
Otps == {111111, 222222}
TickSteps == {5, 6}
LongTickSteps == {30, 31}
CaseEmails == {"a@x.com", "A@x.com"}
CaseUsernames == {"a", "b"}

VARIABLES now, user_auth, otp_record, outbox, nextId, pc, req, loc, res,
          done, issued, ghost

vars == <<now, user_auth, otp_record, outbox, nextId, pc, req, loc, res,
          done, issued, ghost>>

\* ------------------------------------------------------------- documents
NoDoc == [_id |-> 0, email |-> "", otp |-> 0, token |-> 0, type |-> "",
          created_at |-> 0, expires_at |-> 0, is_used |-> FALSE]

NoUser == [_id |-> 0, email |-> "", username |-> "",
           password_hash |-> [alg |-> "", of |-> ""], is_verified |-> FALSE]

NoReq == [op |-> "", email |-> "", username |-> "", otp |-> 0, token |-> 0,
          password |-> ""]

\* the handler's local variables; of the user document it found a handler reads
\* only "_id" and "email"
NoLoc == [rec |-> NoDoc, user |-> [_id |-> 0, email |-> ""], t |-> 0]

UserKey(user) == [_id |-> user._id, email |-> user.email]

NoRes == [status |-> 0, detail |-> ""]

\* what the properties remember of a call: repeat, the call began after an earlier
\* call had its effect (the OTP or token it names was consumed, an OTP was issued
\* less than RESEND_INTERVAL before); stale, the document its first query matched
\* was past its expires_at; used, the secret the call consumed
NoGhost == [repeat |-> FALSE, stale |-> FALSE, used |-> 0]

\* bcrypt: a one-way hash that verify_password checks the password against
hash_password(password) == [alg |-> "bcrypt", of |-> password]

verify_password(password, hashed) == hashed.alg = "bcrypt" /\ hashed.of = password

\* ------------------------------------------------- the store's operations
\* a filter document {field: value, ...} matches the documents equal to it on each field
matches(doc, filter) == \A f \in DOMAIN filter : doc[f] = filter[f]

\* {"$set": {field: value, ...}}
apply_set(doc, set) == [f \in DOMAIN doc |-> IF f \in DOMAIN set THEN set[f] ELSE doc[f]]

Matching(coll, filter) == {i \in 1..Len(coll) : matches(coll[i], filter)}

\* find_one without a sort: the first matching document in insertion order
find_one(coll, filter, none) ==
    LET S == Matching(coll, filter)
    IN IF S = {} THEN none ELSE coll[CHOOSE i \in S : \A j \in S : i <= j]

\* find_one(..., sort=[("created_at", -1)]): a matching document of greatest created_at
find_one_latest(coll, filter, none) ==
    LET S == Matching(coll, filter)
    IN IF S = {} THEN none
       ELSE coll[CHOOSE i \in S : \A j \in S : coll[i].created_at >= coll[j].created_at]

delete_one(coll, filter) ==
    LET S == Matching(coll, filter)
    IN IF S = {} THEN coll
       ELSE LET k == CHOOSE i \in S : \A j \in S : i <= j
            IN SubSeq(coll, 1, k - 1) \o SubSeq(coll, k + 1, Len(coll))

delete_many(coll, filter) == SelectSeq(coll, LAMBDA d : ~matches(d, filter))

update_one(coll, filter, set) ==
    LET S == Matching(coll, filter)
    IN IF S = {} THEN coll
       ELSE LET k == CHOOSE i \in S : \A j \in S : i <= j
            IN [coll EXCEPT ![k] = apply_set(coll[k], set)]

update_many(coll, filter, set) ==
    [i \in 1..Len(coll) |-> IF matches(coll[i], filter) THEN apply_set(coll[i], set) ELSE coll[i]]

count_documents(coll, filter) == Cardinality(Matching(coll, filter))

insert_one(coll, doc) == Append(coll, doc)

\* ------------------------------------------------------- handler plumbing
Finish(p, status, detail) ==
    /\ pc' = [pc EXCEPT ![p] = "ret"]
    /\ loc' = [loc EXCEPT ![p] = NoLoc]
    /\ res' = [res EXCEPT ![p] = [status |-> status, detail |-> detail]]

Goto(p, label) ==
    /\ pc' = [pc EXCEPT ![p] = label]
    /\ res' = [res EXCEPT ![p] = NoRes]

Begin(p, r, g) ==
    /\ pc[p] = "idle"
    /\ req' = [req EXCEPT ![p] = r]
    /\ ghost' = [ghost EXCEPT ![p] = g]

\* an earlier call of operation op has returned success on the secret key
Consumed(op, key) == \E d \in done : d.op = op /\ d.key = key

Init ==
    /\ now = 0
    /\ user_auth = << >>
    /\ otp_record = << >>
    /\ outbox = << >>
    /\ nextId = 1
    /\ pc = [p \in Procs |-> "idle"]
    /\ req = [p \in Procs |-> NoReq]
    /\ loc = [p \in Procs |-> NoLoc]
    /\ res = [p \in Procs |-> NoRes]
    /\ done = {}
    /\ issued = [e \in Emails |-> << >>]
    /\ ghost = [p \in Procs |-> NoGhost]

\* the response leaves the handler: the call is over, and a secret it consumed is
\* remembered in done
Return(p) ==
    /\ pc[p] = "ret"
    /\ pc' = [pc EXCEPT ![p] = "idle"]
    /\ req' = [req EXCEPT ![p] = NoReq]
    /\ res' = [res EXCEPT ![p] = NoRes]
    /\ ghost' = [ghost EXCEPT ![p] = NoGhost]
    /\ done' = IF ghost[p].used = 0 THEN done
               ELSE done \cup {[op |-> req[p].op, email |-> req[p].email,
                                key |-> ghost[p].used]}
    /\ UNCHANGED <<now, user_auth, otp_record, outbox, nextId, loc, issued>>

\* ----------------------------------------------------------------- clock
Tick(d) ==
    /\ now + d <= MaxTime
    /\ now' = now + d
    /\ UNCHANGED <<user_auth, otp_record, outbox, nextId, pc, req, loc, res,
                   done, issued, ghost>>

\* the clock over the life of a reset token, in steps of half an hour
TickLong(d) ==
    /\ now + d <= MaxLongTime
    /\ now' = now + d
    /\ UNCHANGED <<user_auth, otp_record, outbox, nextId, pc, req, loc, res,
                   done, issued, ghost>>

\* ------------------------------------- auth/service.py: the user lookups
user_exists_email(email) ==
    count_documents(user_auth, [email |-> email]) > 0

user_exists_username(username) ==
    count_documents(user_auth, [username |-> username]) > 0

\* ------------------------------------------------- main.py: POST /sign-up
sign_up_user(p, email, username, password) ==
    /\ Begin(p, [NoReq EXCEPT !.op = "sign_up", !.email = email,
                              !.username = username, !.password = password],
             NoGhost)
    /\ IF user_exists_email(email)
       THEN /\ Finish(p, 400, "Email already registered")
       ELSE /\ Goto(p, "su_username")
            /\ UNCHANGED loc
    /\ UNCHANGED <<now, user_auth, otp_record, outbox, nextId, done, issued>>

sign_up_username(p) ==
    /\ pc[p] = "su_username"
    /\ IF user_exists_username(req[p].username)
       THEN /\ Finish(p, 400, "Username already taken")
       ELSE /\ Goto(p, "su_create")
            /\ UNCHANGED loc
    /\ UNCHANGED <<now, user_auth, otp_record, outbox, nextId, req, done, issued, ghost>>

create_user(p) ==
    /\ pc[p] = "su_create"
    /\ user_auth' = insert_one(user_auth,
            [_id |-> Len(user_auth) + 1, email |-> req[p].email,
             username |-> req[p].username,
             password_hash |-> hash_password(req[p].password),
             is_verified |-> FALSE])
    /\ Finish(p, 200, "User created successfully!")
    /\ UNCHANGED <<now, otp_record, outbox, nextId, req, done, issued, ghost>>

\* count_documents raises when the store cannot be reached; user_exists_email and
\* user_exists_username have no try/except around it, so the exception leaves them
store_lookup(coll, filter, store_up) ==
    IF store_up
    THEN [raised |-> FALSE, value |-> count_documents(coll, filter) > 0]
    ELSE [raised |-> TRUE, value |-> FALSE]

\* /sign-up while the store is down at the email lookup: the exception leaves
\* sign_up_user too and the framework answers 500
sign_up_store_down(p, email, username, password) ==
    /\ Begin(p, [NoReq EXCEPT !.op = "sign_up", !.email = email,
                              !.username = username, !.password = password],
             NoGhost)
    /\ store_lookup(user_auth, [email |-> email], FALSE).raised
    /\ Finish(p, 500, "PyMongoError")
    /\ UNCHANGED <<now, user_auth, otp_record, outbox, nextId, done, issued>>

\* the store goes down between the two lookups
sign_up_username_store_down(p) ==
    /\ pc[p] = "su_username"
    /\ store_lookup(user_auth, [username |-> req[p].username], FALSE).raised
    /\ Finish(p, 500, "PyMongoError")
    /\ UNCHANGED <<now, user_auth, otp_record, outbox, nextId, req, done, issued, ghost>>

\* -------------------------------------------------- main.py: POST /verify
\* if otp_age > timedelta(minutes=OTP_EXPIRY_MINUTES)
otp_expired(otp_age) == otp_age > OTP_EXPIRY_MINUTES

\* the filter without the email: the OTP of any account matches
otp_filter_code_only(email, otp) == [otp |-> otp]

\* the filter without the code: any OTP of the email matches
otp_filter_email_only(email, otp) == [email |-> email]

\* {"email": otp_data.email, "otp": otp_data.otp}
otp_filter(email, otp) == [email |-> email, otp |-> otp]

verify_user_account(p, email, otp) ==
    /\ LET otp_rec == find_one(otp_record, otp_filter(email, otp), NoDoc)
           otp_age == now - otp_rec.created_at
       IN /\ Begin(p, [NoReq EXCEPT !.op = "verify", !.email = email, !.otp = otp],
                   [NoGhost EXCEPT
                      !.repeat = otp_rec # NoDoc /\ Consumed("verify", otp_rec._id),
                      !.stale = otp_rec # NoDoc /\ now > otp_rec.expires_at])
          /\ IF otp_rec = NoDoc
             THEN Finish(p, 400, "Incorrect OTP")
             ELSE /\ Goto(p, IF otp_expired(otp_age) THEN "v_expired" ELSE "v_user")
                  /\ loc' = [loc EXCEPT ![p] = [NoLoc EXCEPT !.rec = otp_rec]]
    /\ UNCHANGED <<now, user_auth, otp_record, outbox, nextId, done, issued>>

verify_expired(p) ==
    /\ pc[p] = "v_expired"
    /\ otp_record' = delete_one(otp_record, [email |-> loc[p].rec.email])
    /\ Finish(p, 400, "OTP has expired. Please request a new one")
    /\ UNCHANGED <<now, user_auth, outbox, nextId, req, done, issued, ghost>>

verify_find_user(p) ==
    /\ pc[p] = "v_user"
    /\ LET user == find_one(user_auth, [email |-> loc[p].rec.email], NoUser)
       IN IF user = NoUser
          THEN Finish(p, 404, "User not found")
          ELSE /\ Goto(p, "v_update")
               /\ loc' = [loc EXCEPT ![p].user = UserKey(user)]
    /\ UNCHANGED <<now, user_auth, otp_record, outbox, nextId, req, done, issued, ghost>>

verify_update(p) ==
    /\ pc[p] = "v_update"
    /\ user_auth' = update_one(user_auth, [email |-> loc[p].user.email],
                               [is_verified |-> TRUE])
    /\ Goto(p, "v_delete")
    /\ UNCHANGED <<now, otp_record, outbox, nextId, req, loc, done, issued, ghost>>

verify_delete(p) ==
    /\ pc[p] = "v_delete"
    /\ otp_record' = delete_one(otp_record, [email |-> loc[p].rec.email])
    /\ ghost' = [ghost EXCEPT ![p].used = loc[p].rec._id]
    /\ Finish(p, 200, "Account verified successfully")
    /\ UNCHANGED <<now, user_auth, outbox, nextId, req, done, issued>>

\* ------------------------------------------ auth/mail.py: send_email_otp
\* def send_email_otp(receiver_email, otp_code, expiry_minutes=10, user_name="User")
send_email_otp_params == {"receiver_email", "otp_code", "expiry_minutes", "user_name"}

send_email_otp_required == {"receiver_email", "otp_code"}

\* the call written with the parameters' names: it binds
service_mail_keywords_bound == {"receiver_email", "otp_code"}

\* the keyword arguments auth/service.py passes to send_email_otp
service_mail_keywords == {"subject", "body", "receiver"}

\* Python binds a keyword call only when every keyword names a parameter and
\* every parameter without a default is given; otherwise the call raises TypeError
call_binds(keywords) ==
    /\ keywords \subseteq send_email_otp_params
    /\ send_email_otp_required \subseteq keywords

\* the end of resend_otp_service and request_password_reset: the mail call, then
\* the return; SMTP delivery can fail silently (send_email_otp returns a dict the
\* caller ignores). The call touches no collection, so it is taken in one step
\* with the insert_one before it.
send_and_return(p, keywords, detail) ==
    IF call_binds(keywords)
    THEN /\ \E delivered \in BOOLEAN :
              outbox' = IF delivered THEN Append(outbox, req[p].email) ELSE outbox
         /\ Finish(p, 200, detail)
    ELSE /\ outbox' = outbox
         /\ Finish(p, 500, "TypeError")

\* ------------------------------------- auth/service.py: resend_otp_service
\* the comparison made inclusive: a call exactly RESEND_INTERVAL later is refused
resend_too_soon_inclusive(t, last_otp) ==
    last_otp # NoDoc /\ (t - last_otp.created_at) <= RESEND_INTERVAL

\* the comparison reversed: only an old OTP blocks a resend
resend_too_soon_reversed(t, last_otp) ==
    last_otp # NoDoc /\ (t - last_otp.created_at) > RESEND_INTERVAL

\* if last_otp: ... if (now - created_at) < timedelta(seconds=60)
resend_too_soon(t, last_otp) ==
    last_otp # NoDoc /\ (t - last_otp.created_at) < RESEND_INTERVAL

resend_otp_service(p, email) ==
    /\ Begin(p, [NoReq EXCEPT !.op = "resend", !.email = email],
             [NoGhost EXCEPT !.repeat =
                 /\ issued[email] # << >>
                 /\ now - issued[email][Len(issued[email])] < RESEND_INTERVAL])
    /\ LET user == find_one(user_auth, [email |-> email], NoUser)
       IN IF user = NoUser
          THEN Finish(p, 404, "User not found")
          ELSE /\ Goto(p, "r_last")
               /\ loc' = [loc EXCEPT ![p] = [NoLoc EXCEPT !.t = now]]
    /\ UNCHANGED <<now, user_auth, otp_record, outbox, nextId, done, issued>>

resend_rate_limit(p) ==
    /\ pc[p] = "r_last"
    /\ LET last_otp == find_one_latest(otp_record, [email |-> req[p].email], NoDoc)
       IN IF resend_too_soon(loc[p].t, last_otp)
          THEN Finish(p, 429, "Please wait before requesting another OTP")
          ELSE /\ Goto(p, "r_delete")
               /\ UNCHANGED loc
    /\ UNCHANGED <<now, user_auth, otp_record, outbox, nextId, req, done, issued, ghost>>

resend_delete(p) ==
    /\ pc[p] = "r_delete"
    /\ otp_record' = delete_many(otp_record, [email |-> req[p].email])
    /\ Goto(p, "r_insert")
    /\ UNCHANGED <<now, user_auth, outbox, nextId, req, loc, done, issued, ghost>>

resend_insert(p) ==
    /\ pc[p] = "r_insert"
    /\ \E otp_code \in Otps :
         otp_record' = insert_one(otp_record,
             [NoDoc EXCEPT !._id = nextId, !.email = req[p].email, !.otp = otp_code,
                           !.created_at = loc[p].t,
                           !.expires_at = loc[p].t + OTP_TTL,
                           !.is_used = FALSE])
    /\ nextId' = nextId + 1
    /\ issued' = [issued EXCEPT ![req[p].email] = Append(@, loc[p].t)]
    /\ send_and_return(p, service_mail_keywords, "OTP resent successfully")
    /\ UNCHANGED <<now, user_auth, req, done, ghost>>

\* --------------------------------- auth/service.py: request_password_reset
GenericResetMessage ==
    "If an account with that email exists, a password reset link has been sent."

\* uuid.uuid4(): a token no earlier call has produced
generate_reset_token == nextId

\* the comparison reversed: only an old token holds a new request back
reset_too_soon_reversed(t, last_reset_request) ==
    /\ last_reset_request # NoDoc
    /\ (t - last_reset_request.created_at) >= RESET_RATE_LIMIT

\* if last_reset_request: ... if (now - created_at) < timedelta(minutes=5)
reset_too_soon(t, last_reset_request) ==
    /\ last_reset_request # NoDoc
    /\ (t - last_reset_request.created_at) < RESET_RATE_LIMIT

request_password_reset(p, email) ==
    /\ Begin(p, [NoReq EXCEPT !.op = "request_reset", !.email = email], NoGhost)
    /\ LET user == find_one(user_auth, [email |-> email], NoUser)
       IN IF user = NoUser
          THEN Finish(p, 200, GenericResetMessage)
          ELSE /\ Goto(p, "q_last")
               /\ loc' = [loc EXCEPT ![p] = [NoLoc EXCEPT !.t = now]]
    /\ UNCHANGED <<now, user_auth, otp_record, outbox, nextId, done, issued>>

request_rate_limit(p) ==
    /\ pc[p] = "q_last"
    /\ LET last_reset_request ==
               find_one_latest(otp_record,
                   [email |-> req[p].email, type |-> "PASSWORD_RESET"], NoDoc)
       IN IF reset_too_soon(loc[p].t, last_reset_request)
          THEN Finish(p, 200, GenericResetMessage)
          ELSE /\ Goto(p, "q_invalidate")
               /\ UNCHANGED loc
    /\ UNCHANGED <<now, user_auth, otp_record, outbox, nextId, req, done, issued, ghost>>

request_invalidate(p) ==
    /\ pc[p] = "q_invalidate"
    /\ otp_record' = update_many(otp_record,
            [email |-> req[p].email, is_used |-> FALSE, type |-> "PASSWORD_RESET"],
            [is_used |-> TRUE])
    /\ Goto(p, "q_insert")
    /\ UNCHANGED <<now, user_auth, outbox, nextId, req, loc, done, issued, ghost>>

request_insert(p) ==
    /\ pc[p] = "q_insert"
    /\ otp_record' = insert_one(otp_record,
            [NoDoc EXCEPT !._id = nextId, !.email = req[p].email,
                          !.token = generate_reset_token, !.type = "PASSWORD_RESET",
                          !.created_at = loc[p].t,
                          !.expires_at = loc[p].t + TOKEN_EXPIRY,
                          !.is_used = FALSE])
    /\ nextId' = nextId + 1
    /\ send_and_return(p, service_mail_keywords, GenericResetMessage)
    /\ UNCHANGED <<now, user_auth, req, done, issued, ghost>>

\* ------------------------------------ auth/service.py: reset_user_password
\* the check left out: a used token passes
token_used_skipped(token_record) == FALSE

\* if token_record["is_used"]
token_used(token_record) == token_record.is_used

\* the expiry check left out: a token of any age passes
token_expired_never(t, token_record) == FALSE

\* if now > expires_at
token_expired(t, token_record) == t > token_record.expires_at

reset_user_password(p, token, new_password) ==
    /\ LET token_record == find_one(otp_record,
                   [token |-> token, type |-> "PASSWORD_RESET"], NoDoc)
       IN /\ Begin(p, [NoReq EXCEPT !.op = "confirm_reset", !.token = token,
                                    !.password = new_password],
                   [NoGhost EXCEPT
                      !.repeat = Consumed("confirm_reset", token),
                      !.stale = token_record # NoDoc /\ now > token_record.expires_at])
          /\ IF token_record = NoDoc
             THEN Finish(p, 400, "Invalid or expired token.")
             ELSE IF token_used(token_record)
             THEN Finish(p, 400, "Token already used.")
             ELSE IF token_expired(now, token_record)
             THEN Finish(p, 400, "Invalid or expired token.")
             ELSE /\ Goto(p, "c_user")
                  /\ loc' = [loc EXCEPT ![p] = [NoLoc EXCEPT !.rec = token_record]]
    /\ UNCHANGED <<now, user_auth, otp_record, outbox, nextId, done, issued>>

confirm_find_user(p) ==
    /\ pc[p] = "c_user"
    /\ LET user == find_one(user_auth, [email |-> loc[p].rec.email], NoUser)
       IN IF user = NoUser
          THEN Finish(p, 404, "User not found.")
          ELSE /\ Goto(p, "c_update")
               /\ loc' = [loc EXCEPT ![p].user = UserKey(user)]
    /\ UNCHANGED <<now, user_auth, otp_record, outbox, nextId, req, done, issued, ghost>>

confirm_update(p) ==
    /\ pc[p] = "c_update"
    /\ user_auth' = update_one(user_auth, [_id |-> loc[p].user._id],
            [password_hash |-> hash_password(req[p].password)])
    /\ Goto(p, "c_mark")
    /\ UNCHANGED <<now, otp_record, outbox, nextId, req, loc, done, issued, ghost>>

confirm_mark_used(p) ==
    /\ pc[p] = "c_mark"
    /\ otp_record' = update_one(otp_record, [_id |-> loc[p].rec._id],
                                [is_used |-> TRUE])
    /\ ghost' = [ghost EXCEPT ![p].used = req[p].token]
    /\ Finish(p, 200, "Password successfully reset.")
    /\ UNCHANGED <<now, user_auth, outbox, nextId, req, done, issued>>

\* ---------------------------------------- main.py: POST /verify_reset_otp
\* expires_at = otp_entry["created_at"] + timedelta(minutes=5); if now > expires_at
reset_otp_expired(t, otp_entry) == t > otp_entry.created_at + RESET_OTP_VALIDITY

verify_reset_otp(p, email, otp) ==
    /\ LET otp_entry == find_one(otp_record,
                                 [email |-> email, otp |-> otp], NoDoc)
       IN /\ Begin(p, [NoReq EXCEPT !.op = "verify_reset_otp", !.email = email,
                                    !.otp = otp],
                   [NoGhost EXCEPT
                      !.stale = otp_entry # NoDoc /\ now > otp_entry.expires_at,
                      !.used = IF otp_entry # NoDoc /\ ~reset_otp_expired(now, otp_entry)
                               THEN otp_entry._id ELSE 0])
          /\ IF otp_entry = NoDoc
             THEN Finish(p, 400, "Invalid OTP")
             ELSE IF reset_otp_expired(now, otp_entry)
             THEN /\ Goto(p, "x_delete")
                  /\ loc' = [loc EXCEPT ![p] = [NoLoc EXCEPT !.rec = otp_entry]]
             ELSE Finish(p, 200,
                         "OTP verified successfully. You may now reset your password.")
    /\ UNCHANGED <<now, user_auth, otp_record, outbox, nextId, done, issued>>

verify_reset_expired(p) ==
    /\ pc[p] = "x_delete"
    /\ otp_record' = delete_one(otp_record, [email |-> req[p].email])
    /\ Finish(p, 400, "OTP expired. Please request a new one")
    /\ UNCHANGED <<now, user_auth, outbox, nextId, req, done, issued, ghost>>

\* ------------------------------------------ main.py: POST /reset_password
reset_password(p, email, new_password) ==
    /\ Begin(p, [NoReq EXCEPT !.op = "reset_password", !.email = email,
                              !.password = new_password], NoGhost)
    /\ LET user == find_one(user_auth, [email |-> email], NoUser)
       IN IF user = NoUser
          THEN Finish(p, 404, "User not found")
          ELSE /\ Goto(p, "rp_update")
               /\ UNCHANGED loc
    /\ UNCHANGED <<now, user_auth, otp_record, outbox, nextId, done, issued>>

\* the password write also marking the account verified
reset_password_update_verifies(p) ==
    /\ pc[p] = "rp_update"
    /\ user_auth' = update_one(user_auth, [email |-> req[p].email],
            [password_hash |-> hash_password(req[p].password), is_verified |-> TRUE])
    /\ Goto(p, "rp_delete")
    /\ UNCHANGED <<now, otp_record, outbox, nextId, req, loc, done, issued, ghost>>

reset_password_update(p) ==
    /\ pc[p] = "rp_update"
    /\ user_auth' = update_one(user_auth, [email |-> req[p].email],
            [password_hash |-> hash_password(req[p].password)])
    /\ Goto(p, "rp_delete")
    /\ UNCHANGED <<now, otp_record, outbox, nextId, req, loc, done, issued, ghost>>

reset_password_delete(p) ==
    /\ pc[p] = "rp_delete"
    /\ otp_record' = delete_one(otp_record, [email |-> req[p].email])
    /\ Finish(p, 200, "Password reset successfully")
    /\ UNCHANGED <<now, user_auth, outbox, nextId, req, done, issued, ghost>>

\* --------------------------------------------------- main.py: POST /login
\* the keys of the dictionary user_serializer returns; get_user_via_username and
\* get_user_via_email return that dictionary, not the stored document
user_serializer_keys == {"id", "firstname", "lastname", "username", "email",
                         "is_verified", "created_at"}

\* if not user or not verify_password(form_data.password, user["password_hash"]):
\* raise 401; otherwise the access token. Reading a key the serialized user does
\* not have raises KeyError
login_check(p, user) ==
    IF user = NoUser
    THEN Finish(p, 401, "Incorrect username or password")
    ELSE IF "password_hash" \notin user_serializer_keys
    THEN Finish(p, 500, "KeyError")
    ELSE IF ~verify_password(req'[p].password, user.password_hash)
    THEN Finish(p, 401, "Incorrect username or password")
    ELSE Finish(p, 200, "bearer")

\* user = get_user_via_username(form_data.username)
login_user(p, identifier, password) ==
    /\ Begin(p, [NoReq EXCEPT !.op = "login", !.username = identifier,
                              !.password = password], NoGhost)
    /\ LET user == find_one(user_auth, [username |-> identifier], NoUser)
       IN IF user = NoUser
          THEN /\ Goto(p, "l_email")
               /\ UNCHANGED loc
          ELSE login_check(p, user)
    /\ UNCHANGED <<now, user_auth, otp_record, outbox, nextId, done, issued>>

\* if not user: user = get_user_via_email(form_data.username)
login_via_email(p) ==
    /\ pc[p] = "l_email"
    /\ login_check(p, find_one(user_auth, [email |-> req[p].username], NoUser))
    /\ UNCHANGED <<now, user_auth, otp_record, outbox, nextId, req, done, issued, ghost>>

\* ------------------------------------------------------ the whole service
\* calls in flight that will still insert a document into otp-data
Inserting == {q \in Procs : pc[q] \in {"r_last", "r_delete", "r_insert",
                                        "q_last", "q_invalidate", "q_insert"}}

SigningUp == {q \in Procs : pc[q] \in {"su_username", "su_create"}}

\* a response is delivered before any other handler takes its next step
Responding == \E q \in Procs : pc[q] = "ret"

SignUpStep(p) ==
    \/ /\ Len(user_auth) + Cardinality(SigningUp) < MaxUsers
       /\ \E e \in SignUpEmails, u \in Usernames, pw \in SignUpPasswords :
            sign_up_user(p, e, u, pw)
    \/ sign_up_username(p)
    \/ create_user(p)

VerifyStep(p) ==
    \/ \E e \in Emails, o \in Otps : verify_user_account(p, e, o)
    \/ verify_expired(p)
    \/ verify_find_user(p)
    \/ verify_update(p)
    \/ verify_delete(p)

ResendStep(p) ==
    \/ \E e \in Emails : resend_otp_service(p, e)
    \/ resend_rate_limit(p)
    \/ resend_delete(p)
    \/ resend_insert(p)

RequestResetStep(p) ==
    \/ \E e \in Emails : request_password_reset(p, e)
    \/ request_rate_limit(p)
    \/ request_invalidate(p)
    \/ request_insert(p)

ConfirmResetStep(p) ==
    \/ \E t \in 1..MaxIds, pw \in Passwords : reset_user_password(p, t, pw)
    \/ confirm_find_user(p)
    \/ confirm_update(p)
    \/ confirm_mark_used(p)

ResetOtpStep(p) ==
    \/ \E e \in Emails, o \in Otps : verify_reset_otp(p, e, o)
    \/ verify_reset_expired(p)

LoginStep(p) ==
    \/ \E i \in Usernames \cup Emails, pw \in Passwords : login_user(p, i, pw)
    \/ login_via_email(p)

ResetPasswordStep(p) ==
    \/ \E e \in Emails, pw \in Passwords : reset_password(p, e, pw)
    \/ reset_password_update(p)
    \/ reset_password_delete(p)

\* a call that inserts into otp-data begins only while fewer than MaxIds
\* documents have been inserted or are about to be
IdsLeft(p) == pc[p] # "idle" \/ nextId + Cardinality(Inserting) <= MaxIds

Step(p) ==
    \/ SignUpStep(p)
    \/ VerifyStep(p)
    \/ IdsLeft(p) /\ ResendStep(p)
    \/ IdsLeft(p) /\ RequestResetStep(p)
    \/ ConfirmResetStep(p)
    \/ ResetOtpStep(p)
    \/ ResetPasswordStep(p)

\* requests handled concurrently by the thread pool
Next ==
    \/ \E p \in Procs : Return(p)
    \/ /\ ~Responding
       /\ \/ \E d \in TickSteps : Tick(d)
          \/ \E p \in Procs : Step(p)

Spec == Init /\ [][Next]_vars

\* one request at a time
NextSeq ==
    \/ Return(1)
    \/ /\ ~Responding
       /\ \/ \E d \in TickSteps : Tick(d)
          \/ Step(1)
          \/ LoginStep(1)

SpecSeq == Init /\ [][NextSeq]_vars

\* several clients signing up at once, with emails that differ in letter case,
\* over a store that can fail
SignUpAnyStep(p) ==
    \/ /\ Len(user_auth) + Cardinality(SigningUp) < MaxSignUps
       /\ \E e \in CaseEmails, u \in CaseUsernames, pw \in SignUpPasswords :
            \/ sign_up_user(p, e, u, pw)
            \/ sign_up_store_down(p, e, u, pw)
    \/ sign_up_username(p)
    \/ sign_up_username_store_down(p)
    \/ create_user(p)

NextSignUp ==
    \/ \E p \in Procs : Return(p)
    \/ /\ ~Responding
       /\ \E p \in Procs : SignUpAnyStep(p)

SpecSignUp == Init /\ [][NextSignUp]_vars

\* one client asking for reset tokens and using them over more than an hour
NextToken ==
    \/ Return(1)
    \/ /\ ~Responding
       /\ \/ \E d \in LongTickSteps : TickLong(d)
          \/ SignUpStep(1)
          \/ IdsLeft(1) /\ RequestResetStep(1)
          \/ ConfirmResetStep(1)

SpecToken == Init /\ [][NextToken]_vars

\* two accounts, one request at a time: the verification and reset-token
\* operations on one email beside the records of the other
SignUpPeerStep(p) ==
    \/ /\ Len(user_auth) + Cardinality(SigningUp) < MaxPeers
       /\ \E e \in Emails, u \in CaseUsernames, pw \in SignUpPasswords :
            sign_up_user(p, e, u, pw)
    \/ sign_up_username(p)
    \/ create_user(p)

NextPeers ==
    \/ Return(1)
    \/ /\ ~Responding
       /\ \/ \E d \in TickSteps : Tick(d)
          \/ SignUpPeerStep(1)
          \/ VerifyStep(1)
          \/ IdsLeft(1) /\ ResendStep(1)
          \/ IdsLeft(1) /\ RequestResetStep(1)
          \/ ConfirmResetStep(1)

SpecPeers == Init /\ [][NextPeers]_vars

\* one client signing up and calling /resend_otp minute after minute
NextResend ==
    \/ Return(1)
    \/ /\ ~Responding
       /\ \/ Tick(1)
          \/ SignUpStep(1)
          \/ ResendStep(1)

SpecResend == Init /\ [][NextResend]_vars

\* ---------------------------------------------------------------- claims
\* the resend policy of the specification, which the code does not have
MAX_PER_WINDOW == 5
WINDOW == 60

\* the verification OTP documents of an email
OtpDocs(e) == {i \in 1..Len(otp_record) :
                 otp_record[i].email = e /\ otp_record[i].otp # 0}

\* the user documents of an email
UsersOf(e) == {i \in 1..Len(user_auth) : user_auth[i].email = e}

\* C1: once a Verify has returned success on an OTP, no later Verify call matches
\* that OTP again (it fails with "Incorrect OTP"), whatever other records the email has
C1_VerifyAtMostOnce ==
    \A p \in Procs : ~(req[p].op = "verify" /\ ghost[p].repeat)

\* C2: a password-reset operation writes password_hash only after a matching,
\* unused, unexpired reset OTP or token of that email was successfully verified
C2_ResetNeedsVerification ==
    \A p \in Procs :
       /\ pc[p] = "rp_delete" =>
            \E d \in done : d.op = "verify_reset_otp" /\ d.email = req[p].email
       /\ pc[p] = "c_mark" => ~loc[p].rec.is_used /\ ~ghost[p].stale

\* C3: a Verify made after the expires_at announced at issuance (issue time plus
\* OTP_TTL) fails with the expired error and does not verify the account
C3_VerifyAfterTtlFails ==
    \A p \in Procs :
       (req[p].op = "verify" /\ ghost[p].stale) =>
          /\ pc[p] \in {"v_expired", "ret"}
          /\ pc[p] = "ret" =>
               res[p] = [status |-> 400,
                         detail |-> "OTP has expired. Please request a new one"]

C5_ConcurrentVerifyOnce ==
    \A p \in Procs :
       (pc[p] = "ret" /\ req[p].op = "verify" /\ res[p].status = 200
          /\ ~ghost[p].repeat) => ~Consumed("verify", ghost[p].used)

\* C6: two Resend calls made less than RESEND_INTERVAL apart never both issue an
\* OTP: no two OTP documents of one email are created less than RESEND_INTERVAL apart
C6_ConcurrentResendOnce ==
    \A e \in Emails : \A i, j \in OtpDocs(e) :
       (i < j /\ otp_record[i].created_at <= otp_record[j].created_at) =>
          otp_record[j].created_at - otp_record[i].created_at >= RESEND_INTERVAL

\* C7: two concurrent ConfirmReset calls with the same token do not both return
\* success
C7_ConcurrentConfirmOnce ==
    \A p \in Procs :
       (pc[p] = "ret" /\ req[p].op = "confirm_reset" /\ res[p].status = 200
          /\ ~ghost[p].repeat) => ~Consumed("confirm_reset", ghost[p].used)

\* C8: at most one unexpired, unused OTP document per email
C8_OneActiveOtp ==
    \A e \in Emails :
       Cardinality({i \in OtpDocs(e) :
                      ~otp_record[i].is_used /\ now <= otp_record[i].expires_at}) <= 1

\* the OTPs Resend issued for e inside the window that ends now
IssuedInWindow(e) == {i \in 1..Len(issued[e]) : now - issued[e][i] <= WINDOW}

C10_MinimumInterval ==
    /\ [](\A p \in Procs :
            (req[p].op = "resend" /\ ghost[p].repeat) =>
               /\ pc[p] \in {"r_last", "ret"}
               /\ pc[p] = "ret" => res[p].status = 429)
    /\ [][\A p \in Procs :
            (req'[p].op = "resend" /\ ghost'[p].repeat) =>
               (otp_record' = otp_record /\ outbox' = outbox)]_vars

C10_Witness ==
    \E p \in Procs :
       /\ req[p].op = "resend" /\ ghost[p].repeat /\ pc[p] = "ret"
       /\ res[p] = [status |-> 429, detail |-> "Please wait before requesting another OTP"]
       /\ Cardinality(OtpDocs(req[p].email)) = 1

\* the reset-token documents of an email
TokenDocs(e) == {i \in 1..Len(otp_record) :
                   otp_record[i].email = e /\ otp_record[i].type = "PASSWORD_RESET"}

\* the OTP mails delivered to an email
Mails(e) == {i \in 1..Len(outbox) : outbox[i] = e}

\* the stored user a login identifier names, by username first and by email next
LoginTarget(identifier) ==
    LET by_name == find_one(user_auth, [username |-> identifier], NoUser)
    IN IF by_name # NoUser THEN by_name
       ELSE find_one(user_auth, [email |-> identifier], NoUser)

\* C11: RequestReset answers every call, for an email with an account and for an
\* email without one, with the same status and the same generic message
C11_SameResponse ==
    \A p \in Procs :
       (pc[p] = "ret" /\ req[p].op = "request_reset") =>
          res[p] = [status |-> 200, detail |-> GenericResetMessage]

\* C12: a login with the correct password for an account that is not verified is
\* refused (401 or 403), and a login that returns an access token is for a
\* verified account
C12_LoginNeedsVerified ==
    \A p \in Procs :
       (pc[p] = "ret" /\ req[p].op = "login") =>
          LET user == LoginTarget(req[p].username)
          IN /\ res[p].status = 200 => (user # NoUser /\ user.is_verified)
             /\ (user # NoUser /\ ~user.is_verified
                   /\ verify_password(req[p].password, user.password_hash)) =>
                  res[p].status \in {401, 403}

\* C13: when a signup returns success the user is stored unverified, exactly one
\* OTP record is stored for the email and exactly one OTP mail was sent to it
C13_SignupIssuesOtp ==
    \A p \in Procs :
       (pc[p] = "ret" /\ req[p].op = "sign_up" /\ res[p].status = 200) =>
          /\ \E i \in UsersOf(req[p].email) : ~user_auth[i].is_verified
          /\ Cardinality(OtpDocs(req[p].email)) = 1
          /\ Cardinality(Mails(req[p].email)) = 1

C15_ResendVerifiedNoOp ==
    \A p \in Procs :
       (/\ req[p].op = "resend"
        /\ \E i \in UsersOf(req[p].email) : user_auth[i].is_verified) =>
          /\ pc[p] \notin {"r_delete", "r_insert"}
          /\ pc[p] = "ret" => res[p].status = 200

\* C16: the step of a Verify that fails on an expired OTP removes the OTP record it
\* matched and leaves the user records and every unexpired record as they were
C16_ExpiredOtpDeleted ==
    [][\A p \in Procs :
         (pc[p] = "v_expired" /\ pc'[p] = "ret") =>
            /\ \A j \in 1..Len(otp_record') : otp_record'[j]._id # loc[p].rec._id
            /\ \A i \in 1..Len(otp_record) :
                  (otp_record[i]._id # loc[p].rec._id /\ now <= otp_record[i].expires_at) =>
                     \E j \in 1..Len(otp_record') : otp_record'[j] = otp_record[i]
            /\ user_auth' = user_auth]_vars

\* C17: a Verify whose email and code match no OTP record ends at once with 400
\* "Incorrect OTP" and leaves both collections and the outbox as they were
C17_IncorrectOtpChangesNothing ==
    [][\A p \in Procs :
         (/\ pc[p] = "idle" /\ req'[p].op = "verify"
          /\ \A i \in 1..Len(otp_record) :
                ~(otp_record[i].email = req'[p].email /\ otp_record[i].otp = req'[p].otp)) =>
            /\ pc'[p] = "ret"
            /\ res'[p] = [status |-> 400, detail |-> "Incorrect OTP"]
            /\ user_auth' = user_auth /\ otp_record' = otp_record /\ outbox' = outbox]_vars

C17_Witness ==
    \E p \in Procs :
       /\ pc[p] = "ret" /\ req[p].op = "verify"
       /\ res[p] = [status |-> 400, detail |-> "Incorrect OTP"]
       /\ \E i \in OtpDocs(req[p].email) : otp_record[i].otp # req[p].otp
       /\ \E i \in UsersOf(req[p].email) : ~user_auth[i].is_verified

\* C18: when a Verify returns success no OTP record of the email is left
C18_VerifyClearsOtp ==
    \A p \in Procs :
       (pc[p] = "ret" /\ req[p].op = "verify" /\ res[p].status = 200) =>
          OtpDocs(req[p].email) = {}

\* C19: no step deletes a reset-token record or turns its is_used back to false
C19_TokensKept ==
    [][\A i \in 1..Len(otp_record) :
         otp_record[i].type = "PASSWORD_RESET" =>
            \E j \in 1..Len(otp_record') :
               /\ otp_record'[j]._id = otp_record[i]._id
               /\ otp_record[i].is_used => otp_record'[j].is_used]_vars

\* C20: at most one reset-token record per email has is_used = false
C20_OneUnusedToken ==
    \A e \in Emails :
       Cardinality({i \in TokenDocs(e) : ~otp_record[i].is_used}) <= 1

\* str.lower() on the emails of CaseEmails
casefold(email) == IF email = "A@x.com" THEN "a@x.com" ELSE email

\* C21: no two user records share a username, and no two share an email compared
\* without regard to letter case
C21_UniqueUsers ==
    \A i, j \in 1..Len(user_auth) :
       i # j => /\ user_auth[i].username # user_auth[j].username
                /\ casefold(user_auth[i].email) # casefold(user_auth[j].email)

\* C22: a store failure during the lookups of a signup is swallowed (the lookup
\* counts as "not found"): no signup ends with the store's exception
C22_LookupFailureSwallowed ==
    \A p \in Procs :
       (pc[p] = "ret" /\ req[p].op = "sign_up") => res[p].status # 500

\* C23: a user record is created with is_verified = false; is_verified turns true
\* only in the update step of a Verify for that user's email, a Verify that matched
\* an OTP record and then returns success; once true it stays true
C23_VerifiedOnlyByVerify ==
    [][/\ Len(user_auth') >= Len(user_auth)
       /\ Len(user_auth') > Len(user_auth) => ~user_auth'[Len(user_auth')].is_verified
       /\ \A i \in 1..Len(user_auth) :
             /\ user_auth[i].is_verified => user_auth'[i].is_verified
             /\ (~user_auth[i].is_verified /\ user_auth'[i].is_verified) =>
                   \E p \in Procs :
                      /\ pc[p] = "v_update" /\ req[p].op = "verify"
                      /\ req[p].email = user_auth[i].email
                      /\ loc[p].rec.email = req[p].email /\ loc[p].rec.otp = req[p].otp
       /\ \A p \in Procs :
             (pc[p] = "v_delete" /\ pc'[p] # "v_delete") =>
                res'[p] = [status |-> 200, detail |-> "Account verified successfully"]]_vars

C23_Witness ==
    \E p \in Procs :
       /\ pc[p] = "ret" /\ req[p].op = "verify" /\ res[p].status = 200
       /\ \E i \in UsersOf(req[p].email) : user_auth[i].is_verified

\* C24: a ConfirmReset whose token is unknown, already used or past its expires_at
\* ends at once with a 400 and writes nothing; the writes of a ConfirmReset are made
\* only by a call that goes on to return success, so every failing ConfirmReset
\* leaves password_hash and every token record as they were
C24_FailedConfirmWritesNothing ==
    [][\A p \in Procs :
         /\ (/\ pc[p] = "idle" /\ req'[p].op = "confirm_reset"
             /\ LET r == find_one(otp_record,
                             [token |-> req'[p].token, type |-> "PASSWORD_RESET"], NoDoc)
                IN r = NoDoc \/ r.is_used \/ now > r.expires_at) =>
               /\ pc'[p] = "ret" /\ res'[p].status = 400
               /\ user_auth' = user_auth /\ otp_record' = otp_record
         /\ (req'[p].op = "confirm_reset" /\ pc'[p] = "ret" /\ res'[p].status # 200) =>
               (user_auth' = user_auth /\ otp_record' = otp_record)
         /\ (pc[p] = "c_update" /\ pc'[p] # "c_update") => pc'[p] = "c_mark"
         /\ (pc[p] = "c_mark" /\ pc'[p] # "c_mark") => res'[p].status = 200]_vars

C24_Witness ==
    \E p \in Procs :
       /\ pc[p] = "ret" /\ req[p].op = "confirm_reset"
       /\ res[p] = [status |-> 400, detail |-> "Invalid or expired token."]
       /\ \E i \in 1..Len(otp_record) :
             /\ otp_record[i].token = req[p].token /\ ~otp_record[i].is_used
             /\ now > otp_record[i].expires_at
             /\ \E u \in UsersOf(otp_record[i].email) :
                   verify_password("Secret123", user_auth[u].password_hash)
       /\ req[p].password = "NewPass456"

\* the documents of a collection that belong to an email
Own(coll, e) == SelectSeq(coll, LAMBDA d : d.email = e)

\* the email a call in progress works on: the email of its request, or the email
\* of the token record a ConfirmReset found
Target(p) == IF req[p].op = "confirm_reset" THEN loc[p].rec.email ELSE req[p].email

\* C25: the first step of a call writes nothing; every later step of a call for
\* one email leaves the user, OTP and token records of every other email as they
\* were; and each decision the call takes (no such user, no such OTP, too soon) is
\* the one computed from the records of its own email alone
C25_EmailsIndependent ==
    [][\A p \in Procs :
         /\ (pc[p] = "idle" /\ pc'[p] # "idle") =>
               (user_auth' = user_auth /\ otp_record' = otp_record)
         /\ (pc[p] # "idle" /\ pc'[p] # pc[p]) =>
               \A e \in Emails \ {Target(p)} :
                  /\ Own(user_auth', e) = Own(user_auth, e)
                  /\ Own(otp_record', e) = Own(otp_record, e)
         /\ (pc[p] = "idle" /\ req'[p].op = "verify") =>
               (pc'[p] = "ret" <=>
                  \A i \in 1..Len(Own(otp_record, req'[p].email)) :
                     Own(otp_record, req'[p].email)[i].otp # req'[p].otp)
         /\ (pc[p] = "idle" /\ req'[p].op \in {"resend", "request_reset"}) =>
               (pc'[p] = "ret" <=> Own(user_auth, req'[p].email) = << >>)
         /\ (pc[p] = "r_last" /\ pc'[p] # "r_last") =>
               (pc'[p] = "ret" <=>
                  resend_too_soon(loc[p].t,
                     find_one_latest(Own(otp_record, req[p].email),
                                     [email |-> req[p].email], NoDoc)))
         /\ (pc[p] = "q_last" /\ pc'[p] # "q_last") =>
               (pc'[p] = "ret" <=>
                  reset_too_soon(loc[p].t,
                     find_one_latest(Own(otp_record, req[p].email),
                                     [type |-> "PASSWORD_RESET"], NoDoc)))
         /\ (pc[p] \in {"v_user", "c_user"} /\ pc'[p] # pc[p]) =>
               (pc'[p] = "ret" <=> Own(user_auth, loc[p].rec.email) = << >>)]_vars

C25_Witness ==
    \E p \in Procs :
       /\ pc[p] = "ret" /\ req[p].op = "verify" /\ res[p].status = 200
       /\ req[p].email = "a@x.com"
       /\ OtpDocs("b@x.com") # {}
       /\ \E i \in UsersOf("b@x.com") : ~user_auth[i].is_verified

\* C26: a RequestReset for an existing account made less than RESET_RATE_LIMIT
\* after the latest stored reset token of the email was created returns the generic
\* message and creates no token, marks none used and sends no mail
C26_EarlyRequestWritesNothing ==
    [][\A p \in Procs :
         (/\ pc[p] = "q_last" /\ pc'[p] # "q_last"
          /\ \E i \in TokenDocs(req[p].email) :
                loc[p].t - otp_record[i].created_at < RESET_RATE_LIMIT) =>
            /\ pc'[p] = "ret"
            /\ res'[p] = [status |-> 200, detail |-> GenericResetMessage]
            /\ otp_record' = otp_record /\ user_auth' = user_auth
            /\ outbox' = outbox /\ nextId' = nextId]_vars

C26_Witness ==
    \E p \in Procs :
       /\ pc[p] = "ret" /\ req[p].op = "request_reset" /\ res[p].status = 200
       /\ UsersOf(req[p].email) # {}
       /\ \E i \in TokenDocs(req[p].email) :
             /\ ~otp_record[i].is_used
             /\ now - otp_record[i].created_at < RESET_RATE_LIMIT
             /\ now <= otp_record[i].expires_at

\* C27: a Resend that begins less than RESEND_INTERVAL after a Resend issued an OTP
\* for the email is answered 429, whatever calls ran in between
C27_IntervalAcrossCalls ==
    \A p \in Procs :
       (pc[p] = "ret" /\ req[p].op = "resend" /\ ghost[p].repeat) => res[p].status = 429

\* C28: Resend answers 429 only when a verification OTP was issued for the email
\* less than RESEND_INTERVAL before the call; reset-token records play no part
C28_ResendLimitIgnoresTokens ==
    \A p \in Procs :
       (pc[p] = "ret" /\ req[p].op = "resend" /\ res[p].status = 429) => ghost[p].repeat

\* C29: verify_reset_otp accepts only records of the password-reset flow, never an
\* OTP record that Resend issued for account verification
C29_ResetRejectsVerificationOtp ==
    \A p \in Procs :
       (pc[p] = "ret" /\ req[p].op = "verify_reset_otp" /\ res[p].status = 200) =>
          \E i \in 1..Len(otp_record) :
             /\ otp_record[i]._id = ghost[p].used
             /\ otp_record[i].type = "PASSWORD_RESET"

\* C30: a Resend for an existing user with no record of the email younger than
\* RESEND_INTERVAL succeeds: it returns 200 and its OTP mail reaches the user
C30_ResendSucceeds ==
    \A p \in Procs :
       (pc[p] = "ret" /\ req[p].op = "resend" /\ res[p].status \notin {404, 429}) =>
          /\ res[p] = [status |-> 200, detail |-> "OTP resent successfully"]
          /\ Mails(req[p].email) # {}
====
